---- MODULE Spec2Model ----
(***************************************************************************)
(* FarFetch: a wrapper around the platform fetch().  The model follows     *)
(* src/unnamed/part_002 (far-fetch.js), src/src/far-fetch-helper.js and    *)
(* src/src/far-fetch-error.js.  A call of FarFetch.fetch() is an async     *)
(* function; every action below is one segment of it between two awaits.   *)
(***************************************************************************)
EXTENDS Integers, Sequences, FiniteSets, TLC

VARIABLES client, calls, nCalls, callerHeaders

vars == <<client, calls, nCalls, callerHeaders>>

(***************************************************************************)
(* Bounds                                                                  *)
(***************************************************************************)
\* number of calls made on one client in a run
MaxCalls == 2

\* length of the generated request URLs
MaxURLLen == 3

\* length of the generated arrays of files
MaxFiles == 2

\* the call slots: "a" and "b" are two call sites that may be in flight together
Slots == {"a", "b"}

(***************************************************************************)
(* JavaScript values that occur as Fetch API init options.  Every value    *)
(* has the same record shape so that any two values can be compared.       *)
(***************************************************************************)
HdrKeys == {"Authorization", "Content-Type"}

\* a header that is not set
Missing == "<missing>"

FormURLEncoded == "application/x-www-form-urlencoded"
AppJSON == "application/json"

NoHdrs == [h \in HdrKeys |-> Missing]

\* undefined: the key is not a property of the object
Undef == [kind |-> "undef", s |-> "", a |-> <<>>, o |-> NoHdrs, p |-> <<>>]
\* a string (or other scalar)
Str(x) == [kind |-> "str", s |-> x, a |-> <<>>, o |-> NoHdrs, p |-> <<>>]
\* an array of scalars
Arr(q) == [kind |-> "arr", s |-> "", a |-> q, o |-> NoHdrs, p |-> <<>>]
\* a plain object; its properties are HdrKeys, Missing for an absent one
Obj(h) == [kind |-> "obj", s |-> "", a |-> <<>>, o |-> h, p |-> <<>>]
\* bodies built by setFetchOptions: JSON.stringify(data), URLSearchParams(data), FormData
JSONBody(d) == [kind |-> "json", s |-> "", a |-> <<>>, o |-> NoHdrs, p |-> d]
URLEncBody(d) == [kind |-> "urlenc", s |-> "", a |-> <<>>, o |-> NoHdrs, p |-> d]
FormBody(d) == [kind |-> "form", s |-> "", a |-> <<>>, o |-> NoHdrs, p |-> d]

Hdrs(auth, ctype) == [h \in HdrKeys |-> IF h = "Authorization" THEN auth ELSE ctype]

\* a headers object the calling code keeps and passes as `headers` of its calls
CallerHeaders == Hdrs("caller", FormURLEncoded)

\* the keys of a Fetch API init object that the model follows
OptKeys == {"method", "headers", "cache", "body"}

NoOptions == [k \in OptKeys |-> Undef]

MkOptions(method, headers, cache, body) ==
  [k \in OptKeys |-> CASE k = "method" -> method
                       [] k = "headers" -> headers
                       [] k = "cache" -> cache
                       [] OTHER -> body]

(***************************************************************************)
(* deepmerge (the `deepmerge` dependency, default options): objects are    *)
(* merged key by key, arrays are concatenated, anything else is replaced   *)
(* by the source value.                                                    *)
(***************************************************************************)
\* is-mergeable-object: a non-null object that is not a RegExp or a Date
isMergeableObject(v) == v.kind \in {"arr", "obj"}

\* mergeObject(target, source) for a nested plain object such as headers
mergeObject(t, s) ==
  Obj([h \in HdrKeys |->
        IF s.o[h] # Missing THEN s.o[h]
        ELSE IF t.kind = "obj" THEN t.o[h] ELSE Missing])

\* deepmerge(target[key], source[key]) for a key that both carry
deepMergeValue(t, s) ==
  IF (s.kind = "arr") # (t.kind = "arr") THEN s
  ELSE IF s.kind = "arr" THEN Arr(t.a \o s.a)
  ELSE mergeObject(t, s)

\* deepMerge(target, source) on two init objects
deepMerge(t, s) ==
  [k \in OptKeys |->
     IF s[k].kind = "undef" THEN t[k]
     ELSE IF t[k].kind # "undef" /\ isMergeableObject(s[k])
          THEN deepMergeValue(t[k], s[k])
          ELSE s[k]]

(***************************************************************************)
(* FarFetchHelper                                                          *)
(***************************************************************************)
\* mutant of isPlainObject: typeof value === 'object'
isPlainObjectTypeof(v) == v.kind \in {"obj", "arr", "null"}

\* Object.prototype.toString.call(value) === '[object Object]'
isPlainObject(v) == v.kind = "obj"

Letters == {"h", "c"}
Digits == {"1"}
\* [a-zA-Z\d+\-.]
SchemeChars == Letters \cup Digits \cup {"+", "-", "."}

\* /^[a-zA-Z]:\\/
IsWindowsPath(url) ==
  Len(url) >= 3 /\ url[1] \in Letters /\ url[2] = ":" /\ url[3] = "\\"

\* /^[a-zA-Z][a-zA-Z\d+\-.]*:/
HasScheme(url) ==
  /\ Len(url) >= 2
  /\ url[1] \in Letters
  /\ \E i \in 2..Len(url) :
       /\ url[i] = ":"
       /\ \A j \in 2..(i - 1) : url[j] \in SchemeChars

isAbsoluteURL(url) == IF IsWindowsPath(url) THEN FALSE ELSE HasScheme(url)

\* the values of data / URLParams for which typeof value === 'object'
ObjectValues == {"[1,2]", "{a:1}", "null"}

\* how a value gets into a query string: JSON.stringify(value) for an object,
\* array or null, the string coercion of URLSearchParams for anything else
valueStringified(value) ==
  IF value \in ObjectValues THEN <<"JSON.stringify", value>> ELSE <<"String", value>>

\* mutant of objectToQueryString: the entries are left out
objectToQueryStringEmpty(object) == <<>>

\* objectToQueryString: '?' + URLSearchParams(entries), '' for an empty object.
\* A query string is the sequence of its key/value pairs; <<>> is ''.
objectToQueryString(object) ==
  IF Len(object) > 0
  THEN [i \in 1..Len(object) |-> <<object[i][1], valueStringified(object[i][2])>>]
  ELSE <<>>

\* the files option: undefined, one File, an array of Files, a FileList (the
\* array-like `files` of an <input type="file">, which is neither an Array
\* nor a plain object), or a plain object whose properties (categories) each
\* hold one File, an array of Files or a FileList
NoFiles == [kind |-> "none", list |-> <<>>, cats |-> <<>>]
OneFile(f) == [kind |-> "file", list |-> <<f>>, cats |-> <<>>]
FileArray(q) == [kind |-> "array", list |-> q, cats |-> <<>>]
FileList(q) == [kind |-> "filelist", list |-> q, cats |-> <<>>]
FileObject(cats) == [kind |-> "object", list |-> <<>>, cats |-> cats]

\* one property of a files object: its key and its value
Category(key, value) == [key |-> key, kind |-> value.kind, list |-> value.list]

\* the property names a files object may have
CategoryKeys == {"photos", "doc"}

\* `${key}[]`
ArrayKey(key) == IF key = "photos" THEN "photos[]" ELSE "doc[]"

\* what createFormData appends for one property of a files object: a value
\* that is neither a File nor an Array is passed over
categoryEntries(cat) ==
  IF cat.kind = "file" THEN <<<<cat.key, cat.list[1]>>>>
  ELSE IF cat.kind = "array"
  THEN [i \in 1..Len(cat.list) |-> <<ArrayKey(cat.key), cat.list[i]>>]
  ELSE <<>>

\* Object.keys(files).forEach(...): the entries of all categories, in key order
RECURSIVE objectEntries(_)
objectEntries(cats) ==
  IF cats = <<>> THEN <<>> ELSE categoryEntries(Head(cats)) \o objectEntries(Tail(cats))

\* createFormData: the fields of data first, then a single file under 'file',
\* every file of an array under 'files[]', or the entries of a files object;
\* nothing for a value that is neither a File, an Array nor a plain object
createFormData(files, data) ==
  FormBody(data \o (IF files.kind = "file" THEN <<<<"file", files.list[1]>>>>
                    ELSE IF files.kind = "array"
                    THEN [i \in 1..Len(files.list) |-> <<"files[]", files.list[i]>>]
                    ELSE IF files.kind = "object" THEN objectEntries(files.cats)
                    ELSE <<>>))

(***************************************************************************)
(* Responses of the transport and thrown values                            *)
(***************************************************************************)
\* `let response = ''`: no response yet
NoResp == [present |-> FALSE, ok |-> FALSE, status |-> 0, ctype |-> "none",
           bodyJSON |-> FALSE, used |-> FALSE, hasData |-> FALSE, data |-> "none"]

\* a Response as the transport returns it; ok is status in 200..299
Response(status, ctype, bodyJSON) ==
  [present |-> TRUE, ok |-> (status >= 200 /\ status <= 299), status |-> status,
   ctype |-> ctype, bodyJSON |-> bodyJSON, used |-> FALSE, hasData |-> FALSE,
   data |-> "none"]

\* an Error object: its class and the place that created it
Err(cls, origin) == [cls |-> cls, origin |-> origin]
NoErr == Err("none", "none")

\* far-fetch-error.js: new FarFetchError('message')
FarFetchErrorMsg(origin) == Err("FarFetchError", origin)

\* what a call is rejected with.  wrapped: new FarFetchError({ error, response }),
\* whose own properties are error and response; otherwise the error itself.
Thrown(e) == [wrapped |-> FALSE, err |-> e, response |-> NoResp]
FarFetchErrorObj(e, r) == [wrapped |-> TRUE, err |-> e, response |-> r]
NoThrown == Thrown(NoErr)

\* modifiedResponse({ response, responseType }): clone, read the body with
\* response[responseType]() when a Content-Type is present, add responseData.
\* clone() throws on a used body; json() rejects on a body that is not JSON.
modifiedResponse(response, responseType) ==
  IF response.used
  THEN [threw |-> TRUE, err |-> Err("TypeError", "clone"), response |-> response]
  ELSE IF responseType # "null" /\ response.ctype # "none"
       THEN IF responseType = "json" /\ ~response.bodyJSON
            THEN [threw |-> TRUE, err |-> Err("SyntaxError", "parse"),
                  response |-> [response EXCEPT !.used = TRUE]]
            ELSE [threw |-> FALSE, err |-> NoErr,
                  response |-> [response EXCEPT !.hasData = TRUE, !.data = responseType]]
       ELSE [threw |-> FALSE, err |-> NoErr,
             response |-> [response EXCEPT !.hasData = TRUE, !.data = "null"]]

(***************************************************************************)
(* The client (constructor, part_002 170-188) and the state of one call    *)
(***************************************************************************)
\* How a hook or provider is declared: not at all, as a plain function, as an
\* async function, or as a plain function that returns a promise.
FnKinds == {"none", "sync", "async", "promise"}

\* the value a dynamicOptions() hands back: undefined, an init object, a number
DynUndef == [kind |-> "undef", opts |-> NoOptions]
DynObj(o) == [kind |-> "obj", opts |-> o]
DynNum == [kind |-> "num", opts |-> NoOptions]
\* any other value: a string, an array, null
DynOther(k) == [kind |-> k, opts |-> NoOptions]

NoProvider == [fn |-> "none", ret |-> DynUndef]

FarFetch(baseURL, dynamicOptions, beforeSend, afterSend, errorHandler, errorMsgTemplate, defaultOptions) ==
  [baseURL |-> baseURL,
   dynamicOptions |-> dynamicOptions,
   beforeSend |-> beforeSend,
   afterSend |-> afterSend,
   defaultResponseType |-> "json",
   errorHandler |-> errorHandler,
   errorMsgTemplate |-> errorMsgTemplate,
   defaultOptions |-> defaultOptions]

NoMessage == [form |-> "none", text |-> "", method |-> "", noun |-> ""]

NoHandlerArgs == [error |-> NoErr, response |-> NoResp, userMessage |-> NoMessage]

NoURL == [base |-> <<>>, url |-> <<>>, query |-> <<>>]

\* a call slot nobody uses
IdleCall ==
  [pc |-> "idle",
   url |-> <<>>, method |-> "", data |-> <<>>, URLParams |-> <<>>, files |-> NoFiles,
   errorMsg |-> "", errorMsgNoun |-> "",
   globalBeforeSend |-> TRUE, globalAfterSend |-> TRUE, defaultOptionsUsed |-> TRUE,
   responseType |-> "json", rest |-> NoOptions,
   dynamicOptions |-> DynUndef, merged |-> NoOptions, options |-> NoOptions,
   queryString |-> <<>>, fullURL |-> NoURL, sent |-> NoOptions,
   response |-> NoResp, error |-> NoErr, handlerArgs |-> NoHandlerArgs,
   returned |-> NoResp, thrown |-> NoThrown, raisedBy |-> "none",
   trace |-> <<>>, lost |-> {}, beforeSendReturn |-> DynUndef,
   headersRef |-> FALSE, optionsRef |-> FALSE, pending |-> {},
   fetchAPIOptions |-> NoOptions]

\* `...rest` of the call: when the caller passed its own headers object, the
\* headers property is that object, whatever it holds by now
restOf(c, held) == IF c.headersRef THEN [c.rest EXCEPT !["headers"] = Obj(held)] ELSE c.rest

\* the options of the call: after `options = rest` (part_002 268) their
\* headers property is still the caller's object
optionsOf(c, options, held) ==
  IF c.optionsRef THEN [options EXCEPT !["headers"] = Obj(held)] ELSE options

\* the promises of hooks that were called without await and have not settled:
\* a hook that is not an AsyncFunction is called as a plain statement
\* (part_002 401, 416, 440), so a promise it returns is left behind
pendingAfter(c, fn, runs, hook) ==
  IF runs /\ fn = "promise" THEN c.pending \cup {hook} ELSE c.pending

\* the call is rejected with value t, raised by the named step
Reject(c, t, by) == [c EXCEPT !.pc = "rejected", !.thrown = t, !.raisedBy = by]

\* how often the named hook was invoked in the call
Count(c, ev) == Cardinality({i \in 1..Len(c.trace) : c.trace[i] = ev})

\* position of the first occurrence of ev in the trace, 0 if there is none
FirstAt(c, ev) ==
  IF Count(c, ev) = 0 THEN 0
  ELSE CHOOSE i \in 1..Len(c.trace) :
         c.trace[i] = ev /\ \A j \in 1..(i - 1) : c.trace[j] # ev

(***************************************************************************)
(* The methods of FarFetch (part_002)                                      *)
(***************************************************************************)
Methods == {"GET", "POST", "PUT", "PATCH", "DELETE", "HEAD"}

\* the verb of the default error message
ActionOf(method) ==
  IF method = "GET" \/ method = "HEAD" THEN "fetching"
  ELSE IF method = "POST" THEN "adding"
  ELSE IF method = "PUT" \/ method = "PATCH" THEN "updating"
  ELSE IF method = "DELETE" THEN "deleting"
  ELSE ""

\* mutant of userMessage: a configured template is asked first
userMessageTemplateFirst(cl, method, errorMsg, errorMsgNoun) ==
  IF cl.errorMsgTemplate
  THEN [form |-> "template", text |-> "", method |-> method, noun |-> errorMsgNoun]
  ELSE IF errorMsg # "" THEN [form |-> "errorMsg", text |-> errorMsg, method |-> "", noun |-> ""]
       ELSE [form |-> "default", text |-> ActionOf(method), method |-> "",
             noun |-> errorMsgNoun]

\* userMessage({ method, errorMsg, errorMsgNoun })
userMessage(cl, method, errorMsg, errorMsgNoun) ==
  IF errorMsg # "" THEN [form |-> "errorMsg", text |-> errorMsg, method |-> "", noun |-> ""]
  ELSE IF cl.errorMsgTemplate
       THEN [form |-> "template", text |-> "", method |-> method, noun |-> errorMsgNoun]
       ELSE [form |-> "default", text |-> ActionOf(method), method |-> "",
             noun |-> errorMsgNoun]

\* mutant of getDynamicOptions: the promise of a plain function is handed on
getDynamicOptionsUnawaited(cl) ==
  IF cl.dynamicOptions.fn = "none" THEN DynUndef
  ELSE IF cl.dynamicOptions.fn = "promise" THEN DynOther("promise")
  ELSE cl.dynamicOptions.ret

\* await this.getDynamicOptions(): an AsyncFunction provider is awaited inside;
\* a plain function's promise is returned from the async method, whose own
\* promise adopts it, so the caller's await yields the resolved value as well
getDynamicOptions(cl) ==
  IF cl.dynamicOptions.fn = "none" THEN DynUndef
  ELSE cl.dynamicOptions.ret

\* mutant of mergeOptions: defaultOptionsUsed is not looked at
mergeOptionsAlways(cl, dynamicOptions, rest, defaultOptionsUsed) ==
  IF dynamicOptions.kind # "undef" /\ ~isPlainObject(dynamicOptions)
  THEN [threw |-> TRUE, options |-> NoOptions]
  ELSE [threw |-> FALSE,
        options |->
          deepMerge(IF dynamicOptions.kind # "undef"
                    THEN deepMerge(deepMerge(NoOptions, cl.defaultOptions),
                                   dynamicOptions.opts)
                    ELSE deepMerge(NoOptions, cl.defaultOptions),
                    rest)]

\* mergeOptions({ rest, defaultOptionsUsed }), after the provider has answered
mergeOptions(cl, dynamicOptions, rest, defaultOptionsUsed) ==
  IF defaultOptionsUsed
  THEN IF dynamicOptions.kind # "undef" /\ ~isPlainObject(dynamicOptions)
       THEN [threw |-> TRUE, options |-> NoOptions]
       ELSE [threw |-> FALSE,
             options |->
               deepMerge(IF dynamicOptions.kind # "undef"
                         THEN deepMerge(deepMerge(NoOptions, cl.defaultOptions),
                                        dynamicOptions.opts)
                         ELSE deepMerge(NoOptions, cl.defaultOptions),
                         rest)]
  ELSE [threw |-> FALSE, options |-> rest]

\* options.headers?.['Content-Type']
contentTypeHeader(options) ==
  IF options["headers"].kind = "obj" THEN options["headers"].o["Content-Type"] ELSE Missing

\* contentTypeHeader?.includes('application/x-www-form-urlencoded')
isFormURLEncoded(options) == contentTypeHeader(options) = FormURLEncoded

\* delete options.headers?.['Content-Type']
deleteContentType(options) ==
  IF options["headers"].kind = "obj"
  THEN [options EXCEPT !["headers"] = Obj([options["headers"].o EXCEPT !["Content-Type"] = Missing])]
  ELSE options

\* mutant of QueryMethods: DELETE is not a query string method
QueryMethodsWithoutDelete == {"GET", "HEAD"}

\* the methods whose data go into the query string (part_002 321)
QueryMethods == {"GET", "DELETE", "HEAD"}
BodyMethods == {"POST", "PUT", "PATCH"}

\* the method the merged options carry
methodOf(options) == IF options["method"].kind = "str" THEN options["method"].s ELSE ""

\* the data/URLParams conflict test of setFetchOptions (part_002 322-327)
conflictingParams(files, options, data, URLParams) ==
  /\ files.kind = "none"
  /\ Len(data) > 0
  /\ methodOf(options) \in QueryMethods
  /\ Len(URLParams) > 0

\* setFetchOptions after mergeOptions: the query string and the final options
setFetchOptions(options, data, URLParams, files) ==
  IF files.kind # "none"
  THEN [queryString |-> objectToQueryString(URLParams),
        options |-> deleteContentType([options EXCEPT !["body"] = createFormData(files, data)])]
  ELSE IF Len(data) > 0
  THEN IF methodOf(options) \in QueryMethods
       THEN [queryString |-> objectToQueryString(data), options |-> options]
       ELSE IF isFormURLEncoded(options)
       THEN [queryString |-> objectToQueryString(URLParams),
             options |-> [options EXCEPT !["body"] = URLEncBody(data)]]
       ELSE IF methodOf(options) \in BodyMethods
       THEN [queryString |-> objectToQueryString(URLParams),
             options |->
               [deepMerge(options,
                          [NoOptions EXCEPT !["headers"] = Obj(Hdrs(Missing, AppJSON))])
                  EXCEPT !["body"] = JSONBody(data)]]
       ELSE [queryString |-> objectToQueryString(URLParams), options |-> options]
  ELSE [queryString |-> objectToQueryString(URLParams), options |-> options]

\* `options = deepMerge(options, ...)` (part_002 334) makes the options a
\* fresh copy; every other branch keeps the object mergeOptions returned
optionsCopied(options, data, files) ==
  /\ files.kind = "none"
  /\ Len(data) > 0
  /\ methodOf(options) \in BodyMethods
  /\ ~isFormURLEncoded(options)

\* the caller's headers object after setFetchOptions: `delete
\* options.headers?.['Content-Type']` (part_002 318) acts on it when the
\* options still hold it
headersAfterSetFetchOptions(c, options, held) ==
  IF c.optionsRef /\ c.files.kind # "none" THEN options["headers"].o ELSE held

\* mutant of getFullURL: the url is not tested for being absolute
getFullURLAlwaysPrefixed(cl, url, queryString) ==
  [base |-> cl.baseURL, url |-> url, query |-> queryString]

\* getFullURL({ url, queryString })
getFullURL(cl, url, queryString) ==
  IF cl.baseURL # <<>> /\ ~isAbsoluteURL(url)
  THEN [base |-> cl.baseURL, url |-> url, query |-> queryString]
  ELSE [base |-> <<>>, url |-> url, query |-> queryString]

\* mutant of optionsAfterBeforeSend: the value beforeSend returned is merged in
optionsAfterBeforeSendMerged(options, returned) ==
  IF returned.kind = "obj" THEN deepMerge(options, returned.opts) ELSE options

\* the options after runBeforeSend: the value of this.beforeSend(...) is not
\* used (part_002 396-402)
optionsAfterBeforeSend(options, returned) == options

\* mutant of isOk: the status is not tested
isOkNoTest(response) == TRUE

\* response.ok as fetch() tests it (part_002 506)
isOk(response) == response.ok

\* mutant of errorHandlerRuns: the message options are not looked at
errorHandlerRunsAlways(cl, errorMsg, errorMsgNoun) == cl.errorHandler # "none"

\* the guard of runErrorHandler (part_002 426)
errorHandlerRuns(cl, errorMsg, errorMsgNoun) ==
  cl.errorHandler # "none" /\ (errorMsg # "" \/ errorMsgNoun # "")

\* the guard of the catch block for deriving the response body (part_002 512-515)
catchModifies(cl, errorMsg, errorMsgNoun, response) ==
  /\ cl.errorHandler # "none"
  /\ (errorMsg # "" \/ errorMsgNoun # "")
  /\ response.present
  /\ ~response.hasData

\* mutant of rethrown: every error is wrapped
rethrownAlwaysWrapped(error, response) == FarFetchErrorObj(error, response)

\* the value the catch block throws at its end (part_002 526-530)
rethrown(error, response) ==
  IF error.cls = "FarFetchError" THEN FarFetchErrorObj(error, response) ELSE Thrown(error)

(***************************************************************************)
(* What the environment can do: the transport's answers and the outcomes   *)
(* of the caller's hooks                                                   *)
(***************************************************************************)
StatusCodes == {200, 404, 500}

\* Content-Type of the response and whether its body is valid JSON
BodyKinds == {<<"none", FALSE>>, <<"json", TRUE>>, <<"html", FALSE>>, <<"text", FALSE>>}

Responses == {Response(st, b[1], b[2]) : st \in StatusCodes, b \in BodyKinds}

\* a network failure (TypeError) or an abort (AbortError)
TransportErrors == {Err("TypeError", "transport"), Err("AbortError", "transport")}

Replies == [resp : Responses, err : {NoErr}] \cup [resp : {NoResp}, err : TransportErrors]

\* a hook returns, or throws an Error or a FarFetchError
HookOutcomes == {"ok", "Error", "FarFetchError"}

\* the outcomes of one hook invocation; "skip" when the hook is not invoked
OutcomesOf(runs) == IF runs THEN HookOutcomes ELSE {"skip"}

\* what a beforeSend that returns hands back: nothing, or an init object
HookOptions == MkOptions(Undef, Obj(Hdrs("hook", Missing)), Str("hook"), Undef)

BeforeSendReturns == {DynUndef, DynObj(HookOptions)}

ReturnsOf(out) == IF out = "ok" THEN BeforeSendReturns ELSE {DynUndef}

\* the pipeline sees the exception of a hook only when it awaits the hook or
\* the hook throws synchronously: a promise returned by a plain function is dropped
Observed(fn, out) == out \in {"Error", "FarFetchError"} /\ fn \in {"sync", "async"}

Dropped(fn, out) == out \in {"Error", "FarFetchError"} /\ fn = "promise"

(***************************************************************************)
(* fetch(url, options): the segments of the async function                 *)
(***************************************************************************)
\* get/post/put/patch/delete/head and the entry of fetch (part_002 462-473, 550-641)
Fetch(s, in) ==
  /\ calls[s].pc = "idle"
  /\ nCalls < MaxCalls
  /\ nCalls' = nCalls + 1
  /\ calls' = [calls EXCEPT ![s] =
       [IdleCall EXCEPT
          !.pc = "getDynamicOptions",
          !.url = in.url, !.method = in.method, !.data = in.data,
          !.URLParams = in.URLParams, !.files = in.files,
          !.errorMsg = in.errorMsg, !.errorMsgNoun = in.errorMsgNoun,
          !.globalBeforeSend = in.globalBeforeSend,
          !.globalAfterSend = in.globalAfterSend,
          !.defaultOptionsUsed = in.defaultOptionsUsed,
          !.responseType = IF in.responseType = "default"
                           THEN client.defaultResponseType ELSE in.responseType,
          !.headersRef = in.headersRef,
          !.rest = [in.init EXCEPT !["method"] = Str(in.method),
                                   !["headers"] = IF in.headersRef THEN Obj(callerHeaders)
                                                  ELSE in.init["headers"]]]]
  /\ UNCHANGED <<client, callerHeaders>>

\* mutant of GetDynamicOptions: the provider is asked only when the defaults
\* are used
GetDynamicOptionsWithDefaults(s) ==
  LET c == calls[s] IN
  /\ c.pc = "getDynamicOptions"
  /\ calls' = [calls EXCEPT ![s] =
       [c EXCEPT !.pc = "mergeOptions",
                 !.dynamicOptions = IF c.defaultOptionsUsed
                                    THEN getDynamicOptions(client) ELSE DynUndef,
                 !.trace = IF client.dynamicOptions.fn # "none" /\ c.defaultOptionsUsed
                           THEN Append(c.trace, "dynamicOptions") ELSE c.trace]]
  /\ UNCHANGED <<client, nCalls, callerHeaders>>

\* getDynamicOptions (part_002 228-245)
GetDynamicOptions(s) ==
  LET c == calls[s] IN
  /\ c.pc = "getDynamicOptions"
  /\ calls' = [calls EXCEPT ![s] =
       [c EXCEPT !.pc = "mergeOptions",
                 !.dynamicOptions = getDynamicOptions(client),
                 !.trace = IF client.dynamicOptions.fn # "none"
                           THEN Append(c.trace, "dynamicOptions") ELSE c.trace]]
  /\ UNCHANGED <<client, nCalls, callerHeaders>>

\* mergeOptions (part_002 247-271)
MergeOptions(s) ==
  LET c == calls[s]
      m == mergeOptions(client, c.dynamicOptions, restOf(c, callerHeaders),
                        c.defaultOptionsUsed) IN
  /\ c.pc = "mergeOptions"
  /\ calls' = [calls EXCEPT ![s] =
       IF m.threw
       THEN Reject(c, Thrown(Err("TypeError", "mergeOptions")), "mergeOptions")
       ELSE [c EXCEPT !.pc = "setFetchOptions", !.merged = m.options,
                      !.optionsRef = c.headersRef /\ ~c.defaultOptionsUsed]]
  /\ UNCHANGED <<client, nCalls, callerHeaders>>

\* mutant of SetFetchOptions: the options are built inside the try block
SetFetchOptionsInTry(s) ==
  LET c == calls[s]
      merged == optionsOf(c, c.merged, callerHeaders)
      r == setFetchOptions(merged, c.data, c.URLParams, c.files) IN
  /\ c.pc = "setFetchOptions"
  /\ calls' = [calls EXCEPT ![s] =
       IF conflictingParams(c.files, merged, c.data, c.URLParams)
       THEN [c EXCEPT !.pc = "catch", !.error = FarFetchErrorMsg("setFetchOptions")]
       ELSE [c EXCEPT !.pc = "runBeforeSend", !.options = r.options,
                      !.queryString = r.queryString,
                      !.optionsRef = c.optionsRef /\ ~optionsCopied(merged, c.data, c.files)]]
  /\ callerHeaders' = headersAfterSetFetchOptions(c, r.options, callerHeaders)
  /\ UNCHANGED <<client, nCalls>>

\* setFetchOptions after mergeOptions (part_002 302-341)
SetFetchOptions(s) ==
  LET c == calls[s]
      merged == optionsOf(c, c.merged, callerHeaders)
      r == setFetchOptions(merged, c.data, c.URLParams, c.files) IN
  /\ c.pc = "setFetchOptions"
  /\ calls' = [calls EXCEPT ![s] =
       IF conflictingParams(c.files, merged, c.data, c.URLParams)
       THEN Reject(c, Thrown(FarFetchErrorMsg("setFetchOptions")), "setFetchOptions")
       ELSE [c EXCEPT !.pc = "runBeforeSend", !.options = r.options,
                      !.queryString = r.queryString,
                      !.optionsRef = c.optionsRef /\ ~optionsCopied(merged, c.data, c.files)]]
  /\ callerHeaders' = headersAfterSetFetchOptions(c, r.options, callerHeaders)
  /\ UNCHANGED <<client, nCalls>>

\* mutant of RunBeforeSend: beforeSend runs inside the try block
RunBeforeSendInTry(s) ==
  LET c == calls[s]
      runs == c.globalBeforeSend /\ client.beforeSend # "none" IN
  /\ c.pc = "runBeforeSend"
  /\ \E out \in OutcomesOf(runs) : \E ret \in ReturnsOf(out) :
       LET d == [c EXCEPT !.trace = IF runs THEN Append(c.trace, "beforeSend") ELSE c.trace,
                          !.beforeSendReturn = ret,
                          !.options = optionsAfterBeforeSend(c.options, ret),
                          !.pending = pendingAfter(c, client.beforeSend, runs, "beforeSend"),
                          !.fetchAPIOptions = IF runs THEN optionsOf(c, c.options, callerHeaders)
                                              ELSE c.fetchAPIOptions,
                          !.lost = IF Dropped(client.beforeSend, out)
                                   THEN c.lost \cup {"beforeSend"} ELSE c.lost] IN
       calls' = [calls EXCEPT ![s] =
         IF Observed(client.beforeSend, out)
         THEN [d EXCEPT !.pc = "catch", !.error = Err(out, "beforeSend")]
         ELSE [d EXCEPT !.pc = "send"]]
  /\ UNCHANGED <<client, nCalls, callerHeaders>>

\* runBeforeSend (part_002 482-497, 388-404)
RunBeforeSend(s) ==
  LET c == calls[s]
      runs == c.globalBeforeSend /\ client.beforeSend # "none" IN
  /\ c.pc = "runBeforeSend"
  /\ \E out \in OutcomesOf(runs) : \E ret \in ReturnsOf(out) :
       LET d == [c EXCEPT !.trace = IF runs THEN Append(c.trace, "beforeSend") ELSE c.trace,
                          !.beforeSendReturn = ret,
                          !.options = optionsAfterBeforeSend(c.options, ret),
                          !.pending = pendingAfter(c, client.beforeSend, runs, "beforeSend"),
                          !.fetchAPIOptions = IF runs THEN optionsOf(c, c.options, callerHeaders)
                                              ELSE c.fetchAPIOptions,
                          !.lost = IF Dropped(client.beforeSend, out)
                                   THEN c.lost \cup {"beforeSend"} ELSE c.lost] IN
       calls' = [calls EXCEPT ![s] =
         IF Observed(client.beforeSend, out)
         THEN Reject(d, Thrown(Err(out, "beforeSend")), "beforeSend")
         ELSE [d EXCEPT !.pc = "send"]]
  /\ UNCHANGED <<client, nCalls, callerHeaders>>

\* mutant of Send: the transport gets the options as mergeOptions left them
SendMerged(s) ==
  LET c == calls[s] IN
  /\ c.pc = "send"
  /\ calls' = [calls EXCEPT ![s] =
       [c EXCEPT !.pc = "awaitFetch",
                 !.fullURL = getFullURL(client, c.url, c.queryString),
                 !.sent = optionsOf(c, c.merged, callerHeaders),
                 !.trace = Append(c.trace, "transport")]]
  /\ UNCHANGED <<client, nCalls, callerHeaders>>

\* getFullURL and the call of the transport (part_002 499-504)
Send(s) ==
  LET c == calls[s] IN
  /\ c.pc = "send"
  /\ calls' = [calls EXCEPT ![s] =
       [c EXCEPT !.pc = "awaitFetch",
                 !.fullURL = getFullURL(client, c.url, c.queryString),
                 !.sent = optionsOf(c, c.options, callerHeaders),
                 !.trace = Append(c.trace, "transport")]]
  /\ UNCHANGED <<client, nCalls, callerHeaders>>

\* the transport answers or throws; the status test (part_002 504-506)
FetchReply(s) ==
  LET c == calls[s] IN
  /\ c.pc = "awaitFetch"
  /\ \E reply \in Replies :
       calls' = [calls EXCEPT ![s] =
         IF reply.err # NoErr
         THEN [c EXCEPT !.pc = "catch", !.error = reply.err,
                        !.trace = Append(c.trace, "reply")]
         ELSE IF ~isOk(reply.resp)
         THEN [c EXCEPT !.pc = "catch", !.response = reply.resp,
                        !.error = FarFetchErrorMsg("Server error."),
                        !.trace = Append(c.trace, "reply")]
         ELSE [c EXCEPT !.pc = "modifiedResponse", !.response = reply.resp,
                        !.trace = Append(c.trace, "reply")]]
  /\ UNCHANGED <<client, nCalls, callerHeaders>>

\* modifiedResponse on the success path (part_002 508)
ModifyResponse(s) ==
  LET c == calls[s]
      m == modifiedResponse(c.response, c.responseType) IN
  /\ c.pc = "modifiedResponse"
  /\ calls' = [calls EXCEPT ![s] =
       IF m.threw
       THEN [c EXCEPT !.pc = "catch", !.response = m.response, !.error = m.err]
       ELSE [c EXCEPT !.pc = "runAfterSend", !.response = m.response]]
  /\ UNCHANGED <<client, nCalls, callerHeaders>>

\* mutant of RunAfterSend: globalAfterSend is not looked at
RunAfterSendAlways(s) ==
  LET c == calls[s]
      runs == client.afterSend # "none" IN
  /\ c.pc = "runAfterSend"
  /\ \E out \in OutcomesOf(runs) :
       LET d == [c EXCEPT !.trace = IF runs THEN Append(c.trace, "afterSend") ELSE c.trace,
                          !.pending = pendingAfter(c, client.afterSend, runs, "afterSend"),
                          !.lost = IF Dropped(client.afterSend, out)
                                   THEN c.lost \cup {"afterSend"} ELSE c.lost] IN
       calls' = [calls EXCEPT ![s] =
         IF Observed(client.afterSend, out)
         THEN [d EXCEPT !.pc = "catch", !.error = Err(out, "afterSend")]
         ELSE [d EXCEPT !.pc = "resolved", !.returned = d.response]]
  /\ UNCHANGED <<client, nCalls, callerHeaders>>

\* runAfterSend and the return of the response (part_002 510, 406-419, 533)
RunAfterSend(s) ==
  LET c == calls[s]
      runs == c.globalAfterSend /\ client.afterSend # "none" IN
  /\ c.pc = "runAfterSend"
  /\ \E out \in OutcomesOf(runs) :
       LET d == [c EXCEPT !.trace = IF runs THEN Append(c.trace, "afterSend") ELSE c.trace,
                          !.pending = pendingAfter(c, client.afterSend, runs, "afterSend"),
                          !.lost = IF Dropped(client.afterSend, out)
                                   THEN c.lost \cup {"afterSend"} ELSE c.lost] IN
       calls' = [calls EXCEPT ![s] =
         IF Observed(client.afterSend, out)
         THEN [d EXCEPT !.pc = "catch", !.error = Err(out, "afterSend")]
         ELSE [d EXCEPT !.pc = "resolved", !.returned = d.response]]
  /\ UNCHANGED <<client, nCalls, callerHeaders>>

\* mutant of Catch: a failed attempt is sent once more
CatchRetries(s) ==
  LET c == calls[s]
      m == modifiedResponse(c.response, c.responseType) IN
  /\ c.pc = "catch"
  /\ calls' = [calls EXCEPT ![s] =
       IF Count(c, "transport") = 1
       THEN [c EXCEPT !.pc = "send", !.response = NoResp, !.error = NoErr]
       ELSE IF catchModifies(client, c.errorMsg, c.errorMsgNoun, c.response)
       THEN IF m.threw
            THEN Reject([c EXCEPT !.response = m.response], Thrown(m.err), "catch")
            ELSE [c EXCEPT !.pc = "runErrorHandler", !.response = m.response]
       ELSE [c EXCEPT !.pc = "runErrorHandler"]]
  /\ UNCHANGED <<client, nCalls, callerHeaders>>

\* entry of the catch block: the response body is derived for the handler
\* (part_002 511-518)
Catch(s) ==
  LET c == calls[s]
      m == modifiedResponse(c.response, c.responseType) IN
  /\ c.pc = "catch"
  /\ calls' = [calls EXCEPT ![s] =
       IF catchModifies(client, c.errorMsg, c.errorMsgNoun, c.response)
       THEN IF m.threw
            THEN Reject([c EXCEPT !.response = m.response], Thrown(m.err), "catch")
            ELSE [c EXCEPT !.pc = "runErrorHandler", !.response = m.response]
       ELSE [c EXCEPT !.pc = "runErrorHandler"]]
  /\ UNCHANGED <<client, nCalls, callerHeaders>>

\* runErrorHandler (part_002 520-522, 421-443)
RunErrorHandler(s) ==
  LET c == calls[s]
      runs == errorHandlerRuns(client, c.errorMsg, c.errorMsgNoun) IN
  /\ c.pc = "runErrorHandler"
  /\ \E out \in OutcomesOf(runs) :
       LET d == [c EXCEPT
                   !.trace = IF runs THEN Append(c.trace, "errorHandler") ELSE c.trace,
                   !.handlerArgs =
                      IF runs
                      THEN [error |-> c.error, response |-> c.response,
                            userMessage |-> userMessage(client, methodOf(c.options),
                                                        c.errorMsg, c.errorMsgNoun)]
                      ELSE c.handlerArgs,
                   !.pending = pendingAfter(c, client.errorHandler, runs, "errorHandler"),
                   !.lost = IF Dropped(client.errorHandler, out)
                            THEN c.lost \cup {"errorHandler"} ELSE c.lost] IN
       calls' = [calls EXCEPT ![s] =
         IF Observed(client.errorHandler, out)
         THEN Reject(d, Thrown(Err(out, "errorHandler")), "errorHandler")
         ELSE [d EXCEPT !.pc = "rethrow"]]
  /\ UNCHANGED <<client, nCalls, callerHeaders>>

\* the end of the catch block (part_002 524-530)
Rethrow(s) ==
  LET c == calls[s] IN
  /\ c.pc = "rethrow"
  /\ calls' = [calls EXCEPT ![s] = Reject(c, rethrown(c.error, c.response), "rethrow")]
  /\ UNCHANGED <<client, nCalls, callerHeaders>>

\* a promise that a hook left behind settles, at a time of its own
HookSettles(s) ==
  LET c == calls[s] IN
  /\ c.pc # "idle"
  /\ \E hook \in c.pending :
       calls' = [calls EXCEPT ![s] = [c EXCEPT !.pending = c.pending \ {hook}]]
  /\ UNCHANGED <<client, nCalls, callerHeaders>>

\* the caller has taken the result of the call; the call site can be used again
Settled(s) ==
  /\ calls[s].pc \in {"resolved", "rejected"}
  /\ calls' = [calls EXCEPT ![s] = IdleCall]
  /\ UNCHANGED <<client, nCalls, callerHeaders>>

\* every segment of fetch() after its entry
Step(s) ==
  \/ GetDynamicOptions(s)
  \/ MergeOptions(s)
  \/ SetFetchOptions(s)
  \/ RunBeforeSend(s)
  \/ Send(s)
  \/ FetchReply(s)
  \/ ModifyResponse(s)
  \/ RunAfterSend(s)
  \/ Catch(s)
  \/ RunErrorHandler(s)
  \/ Rethrow(s)
  \/ Settled(s)

(***************************************************************************)
(* Inputs                                                                  *)
(***************************************************************************)
\* one request option record of fetch(url, { ... })
Input(url, method, data, URLParams, files, errorMsg, errorMsgNoun, globalBeforeSend, globalAfterSend, defaultOptionsUsed, responseType, init) ==
  [url |-> url, method |-> method, data |-> data, URLParams |-> URLParams,
   files |-> files, errorMsg |-> errorMsg, errorMsgNoun |-> errorMsgNoun,
   globalBeforeSend |-> globalBeforeSend, globalAfterSend |-> globalAfterSend,
   defaultOptionsUsed |-> defaultOptionsUsed, responseType |-> responseType,
   init |-> init, headersRef |-> FALSE]

\* the same request with the caller's own headers object as `headers`
WithCallerHeaders(in) == [in EXCEPT !.headersRef = TRUE]

RelativeURL == <<"/", "p">>
AbsoluteURL == <<"h", ":", "/", "x">>
BaseURL == <<"h", ":", "/", "b">>

SomeData == <<<<"name", "Bob">>, <<"tags", "[1,2]">>>>
SomeParams == <<<<"weight", "75">>>>

\* the values that tell the three option sources apart
StaticOptions == MkOptions(Undef, Obj(Hdrs("static", "static")), Str("static"), Undef)
DynamicOptions == MkOptions(Undef, Obj(Hdrs("dynamic", Missing)), Undef, Undef)

\* the error message options of a call: none, a noun, a whole message
Messages == {<<"", "">>, <<"", "users">>, <<"Custom Message", "">>}

(***************************************************************************)
(* Spec: the life cycle of calls.  Every way of declaring the three hooks, *)
(* and providers that return an init object, a number or a promise.        *)
(***************************************************************************)
Providers ==
  {[fn |-> "sync", ret |-> DynObj(DynamicOptions)], [fn |-> "sync", ret |-> DynNum],
   [fn |-> "async", ret |-> DynObj(DynamicOptions)],
   [fn |-> "promise", ret |-> DynObj(DynamicOptions)]}

Clients ==
  {FarFetch(<<>>, NoProvider, b, a, h, FALSE, StaticOptions) :
     b \in FnKinds, a \in FnKinds, h \in FnKinds}
  \cup {FarFetch(<<>>, dyn, "sync", "sync", h, FALSE, StaticOptions) :
          dyn \in Providers, h \in {"none", "sync"}}

Inputs ==
  {Input(RelativeURL, m, dp[1], dp[2], NoFiles, msg[1], msg[2], gb, ga, du, "default",
         NoOptions) :
     m \in {"GET", "POST"}, dp \in {<<<<>>, <<>>>>, <<SomeData, SomeParams>>},
     msg \in Messages, gb \in BOOLEAN, ga \in BOOLEAN, du \in BOOLEAN}

Init ==
  /\ client \in Clients
  /\ calls = [s \in Slots |-> IdleCall]
  /\ nCalls = 0
  /\ callerHeaders = CallerHeaders

Next ==
  \E s \in {"a"} :
    \/ \E in \in Inputs : Fetch(s, in)
    \/ Step(s)

Spec == Init /\ [][Next]_vars

(***************************************************************************)
(* SpecMerge: the three sources of init options.  Each source has its own  *)
(* value, so that the source of every leaf of the merged options is seen.  *)
(***************************************************************************)
\* the init objects a source with value x provides: nothing; cache and both
\* headers; headers as an array of pairs; one header; cache alone
OptionsOf(x) ==
  {NoOptions,
   MkOptions(Undef, Obj(Hdrs(x, x)), Str(x), Undef),
   MkOptions(Undef, Arr(<<x>>), Undef, Undef),
   MkOptions(Undef, Obj(Hdrs(Missing, x)), Undef, Undef),
   MkOptions(Undef, Undef, Str(x), Undef)}

ProvidersMerge ==
  {NoProvider, [fn |-> "sync", ret |-> DynUndef]}
  \cup {[fn |-> "sync", ret |-> DynObj(o)] : o \in OptionsOf("dynamic") \ {NoOptions}}

ClientsMerge ==
  {FarFetch(<<>>, dyn, "none", "none", "none", FALSE, st) :
     dyn \in ProvidersMerge, st \in OptionsOf("static")}

InputsMerge ==
  {Input(RelativeURL, m, d, <<>>, f, "", "", TRUE, TRUE, du, "default", o) :
     m \in {"GET", "POST"}, d \in {<<>>, SomeData}, f \in {NoFiles, OneFile("f1")},
     du \in BOOLEAN, o \in OptionsOf("call")}

InitMerge ==
  /\ client \in ClientsMerge
  /\ calls = [s \in Slots |-> IdleCall]
  /\ nCalls = 0
  /\ callerHeaders = CallerHeaders

NextMerge ==
  \E s \in {"a"} :
    \/ \E in \in InputsMerge : Fetch(s, in)
    \/ Step(s)

SpecMerge == InitMerge /\ [][NextMerge]_vars

(***************************************************************************)
(* SpecShape: how data, URLParams and files shape the request, for every   *)
(* method.                                                                 *)
(***************************************************************************)
\* init objects whose Content-Type matters to setFetchOptions
ShapeOptionsOf(x) ==
  {NoOptions,
   MkOptions(Undef, Obj(Hdrs(x, x)), Undef, Undef),
   MkOptions(Undef, Obj(Hdrs(Missing, FormURLEncoded)), Undef, Undef)}

ClientsShape ==
  {FarFetch(<<>>, dyn, "none", "none", "sync", FALSE, st) :
     dyn \in {NoProvider, [fn |-> "sync", ret |-> DynObj(DynamicOptions)]},
     st \in ShapeOptionsOf("static")}

InputsShape ==
  {Input(RelativeURL, m, d, u, f, "", "users", TRUE, TRUE, du, "default", o) :
     m \in Methods, d \in {<<>>, SomeData}, u \in {<<>>, SomeParams},
     f \in {NoFiles, OneFile("f1"), FileArray(<<"f1", "f2">>)},
     du \in BOOLEAN, o \in ShapeOptionsOf("call")}

InitShape ==
  /\ client \in ClientsShape
  /\ calls = [s \in Slots |-> IdleCall]
  /\ nCalls = 0
  /\ callerHeaders = CallerHeaders

NextShape ==
  \E s \in {"a"} :
    \/ \E in \in InputsShape : Fetch(s, in)
    \/ Step(s)

SpecShape == InitShape /\ [][NextShape]_vars

(***************************************************************************)
(* SpecURL: the URL handed to the transport, for every short request URL   *)
(* with and without a baseURL.                                             *)
(***************************************************************************)
\* the characters request URLs are made of: a letter, a digit, ':', '\' and '/'
URLChars == {"h", "1", ":", "\\", "/"}

URLs == UNION {[1..n -> URLChars] : n \in 1..MaxURLLen} \cup {RelativeURL, AbsoluteURL}

ClientsURL ==
  {FarFetch(b, NoProvider, "none", "none", "sync", FALSE, NoOptions) : b \in {<<>>, BaseURL}}

InputsURL ==
  {Input(u, m, dp[1], dp[2], NoFiles, "", "users", TRUE, TRUE, TRUE, "default", NoOptions) :
     u \in URLs, m \in {"GET", "POST"}, dp \in {<<<<>>, <<>>>>, <<SomeData, SomeParams>>}}

InitURL ==
  /\ client \in ClientsURL
  /\ calls = [s \in Slots |-> IdleCall]
  /\ nCalls = 0
  /\ callerHeaders = CallerHeaders

NextURL ==
  \E s \in {"a"} :
    \/ \E in \in InputsURL : Fetch(s, in)
    \/ Step(s)

SpecURL == InitURL /\ [][NextURL]_vars

(***************************************************************************)
(* SpecResponse: how the body of the response is derived, for every        *)
(* responseType a call can ask for.                                        *)
(***************************************************************************)
\* the responseType option of a call: left out, 'text', or null
ResponseTypes == {"default", "text", "null"}

ClientsResponse ==
  {FarFetch(<<>>, NoProvider, "none", "sync", h, FALSE, NoOptions) : h \in {"none", "sync"}}

InputsResponse ==
  {Input(RelativeURL, "GET", <<>>, <<>>, NoFiles, msg[1], msg[2], TRUE, TRUE, TRUE, rt, NoOptions) :
     msg \in Messages, rt \in ResponseTypes}

InitResponse ==
  /\ client \in ClientsResponse
  /\ calls = [s \in Slots |-> IdleCall]
  /\ nCalls = 0
  /\ callerHeaders = CallerHeaders

NextResponse ==
  \E s \in {"a"} :
    \/ \E in \in InputsResponse : Fetch(s, in)
    \/ Step(s)

SpecResponse == InitResponse /\ [][NextResponse]_vars

(***************************************************************************)
(* SpecMessage: the message handed to errorHandler, for every method, with *)
(* and without a template.                                                 *)
(***************************************************************************)
\* errorMsg and errorMsgNoun of a call: neither, one of them, or both
MessagesBoth == Messages \cup {<<"Custom Message", "users">>}

ClientsMessage ==
  {FarFetch(<<>>, NoProvider, "none", "none", "sync", t, NoOptions) : t \in BOOLEAN}

InputsMessage ==
  {Input(RelativeURL, m, <<>>, <<>>, NoFiles, msg[1], msg[2], TRUE, TRUE, TRUE, "default", NoOptions) :
     m \in Methods, msg \in MessagesBoth}

InitMessage ==
  /\ client \in ClientsMessage
  /\ calls = [s \in Slots |-> IdleCall]
  /\ nCalls = 0
  /\ callerHeaders = CallerHeaders

NextMessage ==
  \E s \in {"a"} :
    \/ \E in \in InputsMessage : Fetch(s, in)
    \/ Step(s)

SpecMessage == InitMessage /\ [][NextMessage]_vars

(***************************************************************************)
(* SpecUpload: the multipart body, for every shape of the files option.    *)
(***************************************************************************)
Files == {"f1", "f2"}

FileSeqs == UNION {[1..n -> Files] : n \in 0..MaxFiles}

FileArrays == {FileArray(q) : q \in FileSeqs}

FileLists == {FileList(q) : q \in FileSeqs}

\* the value of one property of a files object
CategoryValues == {OneFile(f) : f \in Files} \cup FileArrays \cup FileLists

\* files objects with one property, or with both in either order
FileObjects ==
  {FileObject(<<Category(k, v)>>) : k \in CategoryKeys, v \in CategoryValues}
  \cup {FileObject(<<Category(k[1], v), Category(k[2], w)>>) :
          k \in {<<"photos", "doc">>, <<"doc", "photos">>},
          v \in CategoryValues, w \in CategoryValues}

FilesValues == {OneFile(f) : f \in Files} \cup FileArrays \cup FileLists \cup FileObjects

ClientsUpload ==
  {FarFetch(<<>>, NoProvider, "none", "none", "none", FALSE,
            MkOptions(Undef, Obj(Hdrs("static", "static")), Undef, Undef))}

InputsUpload ==
  {Input(RelativeURL, "POST", d, <<>>, f, "", "", TRUE, TRUE, TRUE, "null", NoOptions) :
     d \in {<<>>, SomeData}, f \in FilesValues}

InitUpload ==
  /\ client \in ClientsUpload
  /\ calls = [s \in Slots |-> IdleCall]
  /\ nCalls = 0
  /\ callerHeaders = CallerHeaders

NextUpload ==
  \E s \in {"a"} :
    \/ \E in \in InputsUpload : Fetch(s, in)
    \/ Step(s)

SpecUpload == InitUpload /\ [][NextUpload]_vars

(***************************************************************************)
(* SpecProvider: every way of declaring dynamicOptions and every kind of   *)
(* value it hands back.                                                    *)
(***************************************************************************)
\* what a provider returns (or resolves to)
ProviderResults ==
  {DynUndef, DynObj(DynamicOptions), DynNum, DynOther("str"), DynOther("arr"), DynOther("null")}

ProvidersAll ==
  {NoProvider} \cup {[fn |-> f, ret |-> r] : f \in {"sync", "async", "promise"}, r \in ProviderResults}

ClientsProvider ==
  {FarFetch(<<>>, dyn, "sync", "none", "sync", FALSE, StaticOptions) : dyn \in ProvidersAll}

InputsProvider ==
  {Input(RelativeURL, m, dp[1], dp[2], NoFiles, "", "users", TRUE, TRUE, du, "default", o) :
     m \in {"GET", "POST"}, dp \in {<<<<>>, <<>>>>, <<SomeData, SomeParams>>},
     du \in BOOLEAN, o \in {NoOptions, MkOptions(Undef, Obj(Hdrs("call", Missing)), Undef, Undef)}}

InitProvider ==
  /\ client \in ClientsProvider
  /\ calls = [s \in Slots |-> IdleCall]
  /\ nCalls = 0
  /\ callerHeaders = CallerHeaders

NextProvider ==
  \E s \in {"a"} :
    \/ \E in \in InputsProvider : Fetch(s, in)
    \/ Step(s)

SpecProvider == InitProvider /\ [][NextProvider]_vars

(***************************************************************************)
(* SpecShared: two call sites in flight together on one client, the caller *)
(* passing one headers object of its own to some of the calls.             *)
(***************************************************************************)
ClientsShared ==
  {FarFetch(<<>>, NoProvider, "none", "none", "none", FALSE, StaticOptions)}

InputsShared ==
  LET plain == {Input(RelativeURL, "POST", df[1], <<>>, df[2], "", "", TRUE, TRUE, du, "null", NoOptions) :
                  df \in {<<SomeData, NoFiles>>, <<<<>>, FileArray(<<"f1">>)>>}, du \in BOOLEAN}
  IN plain \cup {WithCallerHeaders(in) : in \in plain}

InitShared ==
  /\ client \in ClientsShared
  /\ calls = [s \in Slots |-> IdleCall]
  /\ nCalls = 0
  /\ callerHeaders = CallerHeaders

NextShared ==
  \E s \in Slots :
    \/ \E in \in InputsShared : Fetch(s, in)
    \/ Step(s)

SpecShared == InitShared /\ [][NextShared]_vars

(***************************************************************************)
(* SpecAwait: hooks whose result is a promise, declared async or not, and  *)
(* the time at which that promise settles.                                 *)
(***************************************************************************)
ClientsAwait ==
  {FarFetch(<<>>, NoProvider, f, f, f, FALSE, StaticOptions) : f \in {"async", "promise"}}

InputsAwait ==
  {Input(RelativeURL, "GET", <<>>, <<>>, NoFiles, "", "users", gb, ga, TRUE, "null", NoOptions) :
     gb \in BOOLEAN, ga \in BOOLEAN}

InitAwait ==
  /\ client \in ClientsAwait
  /\ calls = [s \in Slots |-> IdleCall]
  /\ nCalls = 0
  /\ callerHeaders = CallerHeaders

NextAwait ==
  \E s \in {"a"} :
    \/ \E in \in InputsAwait : Fetch(s, in)
    \/ Step(s)
    \/ HookSettles(s)

SpecAwait == InitAwait /\ [][NextAwait]_vars

(***************************************************************************)
(* SpecFrame: uploads with a Content-Type set by each of the sources: the  *)
(* static defaults, the provider, a per-call literal, the caller's object. *)
(***************************************************************************)
ClientsFrame ==
  {FarFetch(<<>>, dyn, "none", "none", "none", FALSE, st) :
     dyn \in {NoProvider,
              [fn |-> "sync",
               ret |-> DynObj(MkOptions(Undef, Obj(Hdrs("dynamic", "dynamic")), Undef, Undef))]},
     st \in {NoOptions, StaticOptions}}

InputsFrame ==
  LET plain == {Input(RelativeURL, "POST", d, <<>>, f, "", "", TRUE, TRUE, du, "null", o) :
                  d \in {<<>>, SomeData}, f \in {NoFiles, OneFile("f1"), FileArray(<<"f1">>)},
                  du \in BOOLEAN,
                  o \in {NoOptions, MkOptions(Undef, Obj(Hdrs("call", "call")), Undef, Undef)}}
  IN plain \cup {WithCallerHeaders(in) : in \in plain}

InitFrame ==
  /\ client \in ClientsFrame
  /\ calls = [s \in Slots |-> IdleCall]
  /\ nCalls = 0
  /\ callerHeaders = CallerHeaders

NextFrame ==
  \E s \in {"a"} :
    \/ \E in \in InputsFrame : Fetch(s, in)
    \/ Step(s)

SpecFrame == InitFrame /\ [][NextFrame]_vars

(***************************************************************************)
(* Vocabulary of the claims                                                *)
(***************************************************************************)
\* the call has settled and the caller holds its result
Done(c) == c.pc \in {"resolved", "rejected"}

ServerError == FarFetchErrorMsg("Server error.")

\* the transport answered with a status outside 200-299
Non2xx(c) == c.error = ServerError

\* the transport itself threw (network failure, abort)
TransportThrew(c) == c.error.origin = "transport"

\* a request failure: a non-2xx status or a transport-level exception
RequestFailed(c) == Non2xx(c) \/ TransportThrew(c)

\* the call supplied errorMsg or errorMsgNoun
HasMessage(c) == c.errorMsg # "" \/ c.errorMsgNoun # ""

\* a caller configuration error was raised
ConfigErrorRaised(c) == c.pc = "rejected" /\ c.raisedBy \in {"mergeOptions", "setFetchOptions"}

\* the named header of an init object, Missing when headers is no plain object
HeaderOf(options, h) ==
  IF options["headers"].kind = "obj" THEN options["headers"].o[h] ELSE Missing

\* the transport was called: c.sent holds the options handed to it
Sent(c) == Count(c, "transport") = 1

\* setFetchOptions derives neither a body nor a Content-Type for the call
NothingDerived(c) == c.files.kind = "none" /\ (Len(c.data) = 0 \/ c.method \in QueryMethods)

\* the init object the provider of the client returned for the call
DynamicResult(c) == IF c.dynamicOptions.kind = "obj" THEN c.dynamicOptions.opts ELSE NoOptions

\* every scalar that occurs in an init object
Tokens(options) ==
  UNION {{options[k].s} \cup {options[k].a[i] : i \in 1..Len(options[k].a)}
           \cup {options[k].o[h] : h \in HdrKeys} : k \in OptKeys}

(***************************************************************************)
(* C1                                                                      *)
(***************************************************************************)
\* precedence per leaf key as C1 states it: the higher source wins, nested
\* plain objects are combined key by key, anything else is taken whole
Precedes(lo, hi) ==
  IF hi.kind = "undef" THEN lo
  ELSE IF hi.kind = "obj" /\ lo.kind = "obj"
       THEN Obj([h \in HdrKeys |-> IF hi.o[h] # Missing THEN hi.o[h] ELSE lo.o[h]])
       ELSE hi

\* static defaults < dynamicOptions() result < per-call options
Precedence(c, k) ==
  Precedes(Precedes(client.defaultOptions[k], DynamicResult(c)[k]), c.rest[k])

\* C1: with defaultOptionsUsed=true the options handed to the transport follow
\* the precedence static defaults < dynamicOptions() result < per-call options
\* per leaf key, nested plain objects such as headers being merged key by key.
\* (The Content-Type that setFetchOptions derives is left out.)
C1_Precedence ==
  \A s \in Slots :
    LET c == calls[s] IN
    (c.defaultOptionsUsed /\ Sent(c)) =>
      /\ c.sent["cache"] = Precedence(c, "cache")
      /\ HeaderOf(c.sent, "Authorization") = HeaderOf([headers |-> Precedence(c, "headers")], "Authorization")
      /\ NothingDerived(c) => c.sent["headers"] = Precedence(c, "headers")

(***************************************************************************)
(* C2                                                                      *)
(***************************************************************************)
\* C2: with defaultOptionsUsed=false the merged options are exactly the
\* per-call options (with the method), and no value of the static defaults or
\* of the dynamicOptions() result reaches the transport.
C2_DefaultsBypassed ==
  \A s \in Slots :
    LET c == calls[s] IN
    /\ (~c.defaultOptionsUsed /\ c.pc \notin {"idle", "getDynamicOptions", "mergeOptions"}) =>
         /\ c.merged = c.rest
         /\ c.merged["method"] = Str(c.method)
    /\ (~c.defaultOptionsUsed /\ Sent(c)) =>
         /\ Tokens(c.sent) \cap {"static", "dynamic"} = {}
         /\ c.sent["cache"] = c.rest["cache"]
         /\ c.sent["method"] = c.rest["method"]
         /\ HeaderOf(c.sent, "Authorization") = HeaderOf(c.rest, "Authorization")
         /\ NothingDerived(c) => c.sent = c.rest

\* a call that bypasses defaults which the client does have
C2_Witness ==
  \E s \in Slots :
    /\ ~calls[s].defaultOptionsUsed
    /\ Sent(calls[s])
    /\ client.defaultOptions["cache"] = Str("static")
    /\ DynamicResult(calls[s])["cache"] = Str("dynamic")
    /\ calls[s].sent = calls[s].rest

(***************************************************************************)
(* C3                                                                      *)
(***************************************************************************)
\* C3: whenever the transport answers with a status outside 200-299 the call
\* rejects with a FarFetchError whose response.status is the server status and
\* whose error is the 'Server error.' FarFetchError, and a configured
\* errorHandler is invoked exactly once with { error, response, userMessage }
\* when errorMsg or errorMsgNoun is given.  (Calls whose errorHandler throws are
\* left out of the statement.)
C3_Non2xxRejectsTagged ==
  \A s \in Slots :
    LET c == calls[s] IN
    (Done(c) /\ Non2xx(c) /\ c.raisedBy # "errorHandler") =>
      /\ c.pc = "rejected"
      /\ c.thrown.wrapped
      /\ c.thrown.err = ServerError
      /\ c.thrown.response.status = c.response.status
      /\ (client.errorHandler # "none" /\ HasMessage(c)) =>
           /\ Count(c, "errorHandler") = 1
           /\ c.handlerArgs.error = ServerError
           /\ c.handlerArgs.response.status = c.response.status

(***************************************************************************)
(* C4                                                                      *)
(***************************************************************************)
\* C4: a call resolves only when the transport returned a response with a
\* status in 200-299; it never resolves after a non-2xx status or after the
\* transport threw.
C4_ResolvesOnlyOnOk ==
  \A s \in Slots :
    LET c == calls[s] IN
    c.pc = "resolved" =>
      /\ Count(c, "reply") = 1
      /\ c.returned.present
      /\ c.returned.status >= 200 /\ c.returned.status <= 299
      /\ ~RequestFailed(c)

\* a call has resolved with the response of the transport
C4_Witness ==
  \E s \in Slots : calls[s].pc = "resolved" /\ calls[s].returned.status = 200

(***************************************************************************)
(* C5                                                                      *)
(***************************************************************************)
\* C5 as stated: every request failure, a transport-level exception as well as
\* a non-2xx status, is re-raised as a tagged FarFetchError carrying
\* { error, response }.  (Stated for the calls whose rejection comes from the
\* re-raise at the end of the catch block.)
C5_EveryFailureTagged ==
  \A s \in Slots :
    LET c == calls[s] IN
    (c.pc = "rejected" /\ RequestFailed(c) /\ c.raisedBy = "rethrow") =>
      /\ c.thrown.wrapped
      /\ c.thrown.err = c.error

\* C5 amended: a failed request never resolves.  A non-2xx status is re-raised
\* as a FarFetchError carrying { error, response } with the 'Server error.'
\* FarFetchError and the response; a transport-level exception is re-raised as
\* the original exception itself, not wrapped and without a response.  The
\* only other rejections of a failed request are exceptions of the error path
\* itself: one thrown by errorHandler, or by deriving the response body for it.
C5_FailureReraised ==
  \A s \in Slots :
    LET c == calls[s] IN
    (Done(c) /\ RequestFailed(c)) =>
      /\ c.pc = "rejected"
      /\ c.raisedBy \in {"rethrow", "errorHandler", "catch"}
      /\ (c.raisedBy = "rethrow" /\ Non2xx(c)) =>
            /\ c.thrown = FarFetchErrorObj(ServerError, c.response)
            /\ c.response.present /\ ~c.response.ok
      /\ (c.raisedBy = "rethrow" /\ TransportThrew(c)) =>
            /\ c.thrown = Thrown(c.error)
            /\ ~c.response.present
      /\ (c.raisedBy = "errorHandler") => c.thrown.err.origin = "errorHandler"
      /\ (c.raisedBy = "catch") => c.thrown.err.origin \in {"parse", "clone"}

\* both kinds of failure have been re-raised
C5_Witness ==
  \E s \in Slots :
    /\ calls[s].pc = "rejected"
    /\ calls[s].raisedBy = "rethrow"
    /\ TransportThrew(calls[s])
    /\ calls[s].thrown = Thrown(Err("TypeError", "transport"))

(***************************************************************************)
(* C6                                                                      *)
(***************************************************************************)
\* C6: a GET, HEAD or DELETE call with both data and URLParams non-empty,
\* whatever its other options (files included), fails with a caller
\* configuration error, and the transport is never invoked for it.
C6_ConflictAlwaysFails ==
  \A s \in Slots :
    LET c == calls[s] IN
    (c.method \in QueryMethods /\ Len(c.data) > 0 /\ Len(c.URLParams) > 0) =>
      /\ Count(c, "transport") = 0
      /\ c.pc \in {"getDynamicOptions", "mergeOptions", "setFetchOptions", "rejected"}
      /\ c.pc = "rejected" => ConfigErrorRaised(c)

(***************************************************************************)
(* C7                                                                      *)
(***************************************************************************)
\* C7: a caller configuration error (data together with URLParams on
\* GET/HEAD/DELETE, or a dynamicOptions() result that is defined and not a
\* plain object) never has errorHandler invoked, also when errorHandler is
\* configured and a message is supplied, and reaches the caller unchanged, not
\* wrapped in a { error, response } FarFetchError.
C7_ConfigErrorUnhandled ==
  \A s \in Slots :
    LET c == calls[s] IN
    /\ ConfigErrorRaised(c) =>
         /\ Count(c, "errorHandler") = 0
         /\ ~c.thrown.wrapped
         /\ c.thrown.err = IF c.raisedBy = "mergeOptions"
                           THEN Err("TypeError", "mergeOptions")
                           ELSE FarFetchErrorMsg("setFetchOptions")
    /\ \* the two configuration errors end the call this way
       (Done(c) /\ c.files.kind = "none"
          /\ \/ (c.defaultOptionsUsed /\ getDynamicOptions(client).kind \notin {"undef", "obj"})
             \/ (c.method \in QueryMethods /\ Len(c.data) > 0 /\ Len(c.URLParams) > 0))
         => ConfigErrorRaised(c)

\* a configuration error raised although a handler and a message are there
C7_Witness ==
  \E s \in Slots :
    /\ ConfigErrorRaised(calls[s])
    /\ calls[s].raisedBy = "setFetchOptions"
    /\ client.errorHandler # "none"
    /\ HasMessage(calls[s])

(***************************************************************************)
(* C8                                                                      *)
(***************************************************************************)
\* C8: a call that supplies neither errorMsg nor errorMsgNoun never has
\* errorHandler invoked, whatever the failure, and still rejects; without a
\* configured errorHandler the call still rejects too.
C8_OptOutStillRejects ==
  \A s \in Slots :
    LET c == calls[s] IN
    /\ ~HasMessage(c) => Count(c, "errorHandler") = 0
    /\ (Done(c) /\ RequestFailed(c) /\ (~HasMessage(c) \/ client.errorHandler = "none")) =>
         /\ c.pc = "rejected"
         /\ Count(c, "errorHandler") = 0
         /\ c.raisedBy = "rethrow"

\* a failed call without a message on a client with a handler
C8_Witness ==
  \E s \in Slots :
    /\ calls[s].pc = "rejected"
    /\ RequestFailed(calls[s])
    /\ ~HasMessage(calls[s])
    /\ client.errorHandler # "none"

(***************************************************************************)
(* C9                                                                      *)
(***************************************************************************)
\* the pipeline has seen the named hook throw
HookThrew(c, hook) == c.error.origin = hook \/ c.thrown.err.origin = hook

Rank(ev) ==
  CASE ev = "dynamicOptions" -> 1
    [] ev = "beforeSend" -> 2
    [] ev = "transport" -> 3
    [] ev = "reply" -> 4
    [] ev = "afterSend" -> 5
    [] OTHER -> 6

\* the steps of a call occur in the order of the life cycle, each at most once,
\* afterSend and errorHandler only after the transport has answered or thrown
InOrder(c) ==
  /\ \A i, j \in 1..Len(c.trace) : i < j => Rank(c.trace[i]) < Rank(c.trace[j])
  /\ (Count(c, "afterSend") > 0 \/ Count(c, "errorHandler") > 0) => Count(c, "reply") = 1

C11_HookSwitches ==
  \A s \in Slots :
    LET c == calls[s] IN
    /\ ~c.globalBeforeSend =>
         /\ Count(c, "beforeSend") = 0
         /\ (Done(c) /\ ~ConfigErrorRaised(c)) => Sent(c)
    /\ ~c.globalAfterSend =>
         /\ Count(c, "afterSend") = 0
         /\ (Done(c) /\ c.response.ok /\ c.response.hasData) =>
              (c.pc = "resolved" /\ c.returned = c.response)
    /\ c.pc = "resolved" =>
         /\ (c.globalBeforeSend /\ client.beforeSend # "none") => Count(c, "beforeSend") = 1
         /\ (c.globalAfterSend /\ client.afterSend # "none") => Count(c, "afterSend") = 1

\* a call with both switches off on a client with both hooks has resolved
C11_Witness ==
  \E s \in Slots :
    /\ calls[s].pc = "resolved"
    /\ ~calls[s].globalBeforeSend /\ ~calls[s].globalAfterSend
    /\ client.beforeSend # "none" /\ client.afterSend # "none"
    /\ calls[s].trace = <<"transport", "reply">>

C14_URLParamsInQuery ==
  \A s \in Slots :
    LET c == calls[s] IN
    (Sent(c) /\ c.URLParams = SomeParams) =>
      /\ c.fullURL.query = <<<<"weight", <<"String", "75">>>>>>
      /\ c.fullURL.url = c.url
      /\ (c.method \in {"POST", "PUT", "PATCH"} /\ Len(c.data) > 0) =>
           c.sent["body"] \in {JSONBody(c.data), URLEncBody(c.data),
                               createFormData(c.files, c.data)}

\* a POST with data and URLParams: one in the body, the other in the query
C14_Witness ==
  \E s \in Slots :
    /\ Sent(calls[s])
    /\ calls[s].method = "POST"
    /\ calls[s].URLParams = SomeParams
    /\ calls[s].sent["body"] = JSONBody(SomeData)
    /\ calls[s].fullURL.query = objectToQueryString(SomeParams)

(***************************************************************************)
(* C15                                                                     *)
(***************************************************************************)
\* the header name/value pairs an init object carries: the properties of a
\* plain headers object, or the pairs of a headers array (an element x of the
\* array stands for the pair ['Authorization', x])
headerPairs(options) ==
  IF options["headers"].kind = "obj"
  THEN {<<h, options["headers"].o[h]>> : h \in {k \in HdrKeys : options["headers"].o[k] # Missing}}
  ELSE IF options["headers"].kind = "arr"
  THEN {<<"Authorization", options["headers"].a[i]>> : i \in 1..Len(options["headers"].a)}
  ELSE {}

\* a POST, PUT or PATCH with data, no files and no form-urlencoded Content-Type
\* has reached the transport
JSONRequestSent(c) ==
  /\ Sent(c)
  /\ c.method \in {"POST", "PUT", "PATCH"}
  /\ Len(c.data) > 0
  /\ c.files.kind = "none"
  /\ ~isFormURLEncoded(c.merged)

\* C15: for POST, PUT and PATCH with non-empty data, no files and no
\* application/x-www-form-urlencoded Content-Type, the transport receives
\* Content-Type application/json and the JSON of data as body, and every other
\* header of the merged options is still there with its value.
C15_OtherHeadersKept ==
  \A s \in Slots :
    LET c == calls[s] IN
    JSONRequestSent(c) =>
      /\ HeaderOf(c.sent, "Content-Type") = AppJSON
      /\ c.sent["body"] = JSONBody(c.data)
      /\ \A pr \in headerPairs(c.merged) :
           pr[1] # "Content-Type" => pr \in headerPairs(c.sent)

\* the same for merged options whose headers are a plain object (or absent)
C15_PlainHeadersKept ==
  \A s \in Slots :
    LET c == calls[s] IN
    (JSONRequestSent(c) /\ c.merged["headers"].kind \in {"obj", "undef"}) =>
      /\ HeaderOf(c.sent, "Content-Type") = AppJSON
      /\ c.sent["body"] = JSONBody(c.data)
      /\ \A pr \in headerPairs(c.merged) :
           pr[1] # "Content-Type" => pr \in headerPairs(c.sent)

(***************************************************************************)
(* C16                                                                     *)
(***************************************************************************)
\* the url starts with a scheme token [a-zA-Z][a-zA-Z0-9+.-]*:
SchemeToken(url) ==
  \E n \in 1..(Len(url) - 1) :
    /\ url[1] \in Letters
    /\ \A j \in 2..n : url[j] \in Letters \cup Digits \cup {"+", ".", "-"}
    /\ url[n + 1] = ":"

\* the url starts like a Windows drive path [a-zA-Z]:\
WindowsDrivePath(url) ==
  Len(url) >= 3 /\ url[1] \in Letters /\ SubSeq(url, 2, 3) = <<":", "\\">>

\* the url is a relative reference
RelativeReference(url) == ~SchemeToken(url) \/ WindowsDrivePath(url)

\* C16: the URL handed to the transport is baseURL + url + queryString when a
\* baseURL is configured and url is a relative reference, and url + queryString
\* otherwise; a url that starts with a scheme token and is no Windows drive
\* path is never prefixed, whatever baseURL is configured.
C16_FullURL ==
  \A s \in Slots :
    LET c == calls[s] IN
    Sent(c) =>
      /\ c.fullURL.url = c.url
      /\ c.fullURL.query = c.queryString
      /\ c.fullURL.base = IF client.baseURL # <<>> /\ RelativeReference(c.url)
                          THEN client.baseURL ELSE <<>>
      /\ (SchemeToken(c.url) /\ ~WindowsDrivePath(c.url)) => c.fullURL.base = <<>>

\* an absolute url went out unprefixed on a client with a baseURL
C16_Witness ==
  \E s \in Slots :
    /\ Sent(calls[s])
    /\ client.baseURL = BaseURL
    /\ calls[s].url = <<"h", "1", ":">>
    /\ calls[s].fullURL.base = <<>>

(***************************************************************************)
(* C17                                                                     *)
(***************************************************************************)
\* the body field the Content-Type of a response calls for: the parsed JSON
\* for application/json, the text for text/plain, none otherwise
DerivedFor(ctype) ==
  CASE ctype = "json" -> "json"
    [] ctype = "text" -> "text"
    [] OTHER -> "null"

\* the transport answered the call with an ok response and afterSend did not throw
Succeeded(c) ==
  /\ Done(c)
  /\ Count(c, "reply") = 1
  /\ c.response.present /\ c.response.ok
  /\ c.error.origin # "afterSend"

\* C17: the response returned for a successful answer carries the body field
\* its Content-Type calls for (the parsed JSON for application/json, the text
\* for text/plain, null for any other or a missing Content-Type), and its body
\* can still be read through json() / text().  (Stated for the calls that
\* leave responseType at the default of the client.)
C17_DerivedByContentType ==
  \A s \in Slots :
    LET c == calls[s] IN
    (Succeeded(c) /\ c.responseType = client.defaultResponseType) =>
      /\ c.pc = "resolved"
      /\ c.returned.hasData
      /\ c.returned.data = DerivedFor(c.returned.ctype)
      /\ ~c.returned.used

(***************************************************************************)
(* C18                                                                     *)
(***************************************************************************)
\* the verb of `Error <verb> <noun>` as C18 lists it
VerbOf(method) ==
  CASE method \in {"GET", "HEAD"} -> "fetching"
    [] method = "POST" -> "adding"
    [] method \in {"PUT", "PATCH"} -> "updating"
    [] method = "DELETE" -> "deleting"

\* C18: the userMessage handed to errorHandler is the errorMsg of the call
\* when it is non-empty (also when errorMsgNoun and a template are given);
\* otherwise what errorMsgTemplate({ method, errorMsgNoun }) gives when a
\* template is configured; otherwise `Error <verb> <noun>` with the verb of
\* the method.
C18_UserMessage ==
  \A s \in Slots :
    LET c == calls[s] IN
    Count(c, "errorHandler") = 1 =>
      c.handlerArgs.userMessage =
        IF c.errorMsg # ""
        THEN [form |-> "errorMsg", text |-> c.errorMsg, method |-> "", noun |-> ""]
        ELSE IF client.errorMsgTemplate
        THEN [form |-> "template", text |-> "", method |-> c.method, noun |-> c.errorMsgNoun]
        ELSE [form |-> "default", text |-> VerbOf(c.method), method |-> "",
              noun |-> c.errorMsgNoun]

\* errorMsg won over the noun and the configured template
C18_Witness ==
  \E s \in Slots :
    /\ Count(calls[s], "errorHandler") = 1
    /\ client.errorMsgTemplate
    /\ calls[s].errorMsg = "Custom Message" /\ calls[s].errorMsgNoun = "users"
    /\ calls[s].handlerArgs.userMessage.text = "Custom Message"

(***************************************************************************)
(* C19                                                                     *)
(***************************************************************************)
\* the files a files option holds, in order: categories in the order of the
\* object, files in the order of their sequence
RECURSIVE FilesOfCategories(_)
FilesOfCategories(cats) ==
  IF cats = <<>> THEN <<>> ELSE Head(cats).list \o FilesOfCategories(Tail(cats))

FilesOf(files) == IF files.kind = "object" THEN FilesOfCategories(files.cats) ELSE files.list

\* the field name C19 gives to a file that is alone or in a sequence
FieldName(single, alone, inSequence) == IF single THEN alone ELSE inSequence

RECURSIVE NamesOfCategories(_)
NamesOfCategories(cats) ==
  IF cats = <<>> THEN <<>>
  ELSE [i \in 1..Len(Head(cats).list) |->
          FieldName(Head(cats).kind = "file", Head(cats).key, ArrayKey(Head(cats).key))]
       \o NamesOfCategories(Tail(cats))

NamesOf(files) ==
  IF files.kind = "object" THEN NamesOfCategories(files.cats)
  ELSE [i \in 1..Len(files.list) |-> FieldName(files.kind = "file", "file", "files[]")]

\* the body is a multipart body whose entries are the fields of data and then
\* every file of the files option, once, in order, under the name C19 gives it
FormOf(c) ==
  /\ c.sent["body"].kind = "form"
  /\ Len(c.sent["body"].p) = Len(c.data) + Len(FilesOf(c.files))
  /\ SubSeq(c.sent["body"].p, 1, Len(c.data)) = c.data
  /\ \A i \in 1..Len(FilesOf(c.files)) :
       c.sent["body"].p[Len(c.data) + i] = <<NamesOf(c.files)[i], FilesOf(c.files)[i]>>

\* C19: createFormData appends the fields of data first and then the files in
\* a fixed order: a single file under `file`; a sequence of files each under
\* `files[]`; a category mapping under `<category>` (single file) or
\* `<category>[]` (sequence), categories and files in order; no file is
\* dropped, duplicated or reordered.
C19_FilesInOrder ==
  \A s \in Slots : (Sent(calls[s]) /\ calls[s].files.kind # "none") => FormOf(calls[s])

\* the files option holds Files and Arrays of Files only, no FileList
ArraysOnly(files) ==
  /\ files.kind # "filelist"
  /\ \A i \in 1..Len(files.cats) : files.cats[i].kind # "filelist"

\* the same for a files option made of Files and Arrays of Files
C19_ArraysInOrder ==
  \A s \in Slots :
    (Sent(calls[s]) /\ calls[s].files.kind # "none" /\ ArraysOnly(calls[s].files))
      => FormOf(calls[s])

(***************************************************************************)
(* C20                                                                     *)
(***************************************************************************)
\* the call was rejected at the end of the catch block after a non-2xx status
Non2xxReraised(c) == c.pc = "rejected" /\ Non2xx(c) /\ c.raisedBy = "rethrow"

\* C20: when a request fails with a non-2xx status and the call gives neither
\* errorMsg nor errorMsgNoun, the response carried by the rejected
\* FarFetchError has the derived body field, as it has when errorHandler is
\* used: the parsed JSON for a JSON error body.
C20_ManualEnvelope ==
  \A s \in Slots :
    LET c == calls[s] IN
    (Non2xxReraised(c) /\ ~HasMessage(c)) =>
      /\ c.thrown.wrapped
      /\ c.thrown.response.hasData
      /\ (c.thrown.response.ctype = "json" /\ c.responseType = "json") =>
            c.thrown.response.data = "json"

\* on the errorHandler path the carried response does have the derived field
C20_HandlerEnvelope ==
  \A s \in Slots :
    LET c == calls[s] IN
    (Non2xxReraised(c) /\ HasMessage(c) /\ client.errorHandler # "none") =>
      /\ c.thrown.wrapped
      /\ c.thrown.response.hasData
      /\ (c.thrown.response.ctype = "json" /\ c.responseType = "json") =>
            c.thrown.response.data = "json"

(***************************************************************************)
(* C21                                                                     *)
(***************************************************************************)
\* the provider has answered the call and mergeOptions has run
OptionsMerged(c) == c.pc \notin {"idle", "getDynamicOptions", "mergeOptions"}

\* the provider handed back a defined value that is not a plain object
NonObjectResult(c) == c.dynamicOptions.kind \notin {"undef", "obj"}

\* the call ended with the TypeError of mergeOptions before any hook
RejectedByTypeCheck(c) ==
  /\ c.pc = "rejected"
  /\ c.thrown = Thrown(Err("TypeError", "mergeOptions"))
  /\ Count(c, "beforeSend") = 0
  /\ Count(c, "transport") = 0

\* with an undefined result the options are merged as without a provider
MergedWithoutProvider(c) ==
  \A k \in OptKeys \ {"body"} :
    c.merged[k] = IF c.defaultOptionsUsed
                  THEN Precedes(client.defaultOptions[k], c.rest[k]) ELSE c.rest[k]

\* C21 as stated: whenever dynamicOptions() returns a defined value that is
\* not a plain object the call rejects with a TypeError and neither beforeSend
\* nor the transport is invoked; after an undefined result the call proceeds
\* as without a provider.
C21_NonObjectRejects ==
  \A s \in Slots :
    LET c == calls[s] IN
    OptionsMerged(c) =>
      /\ NonObjectResult(c) => RejectedByTypeCheck(c)
      /\ c.dynamicOptions.kind = "undef" => (c.raisedBy # "mergeOptions" /\ MergedWithoutProvider(c))

\* C21 amended: with defaultOptionsUsed=true a defined result that is not a
\* plain object rejects the call with a TypeError, and neither beforeSend nor
\* the transport is invoked; with defaultOptionsUsed=false the result is not
\* looked at and no TypeError is raised.  After an undefined result the call
\* proceeds as without a provider.
C21_NonObjectRejectsWithDefaults ==
  \A s \in Slots :
    LET c == calls[s] IN
    OptionsMerged(c) =>
      /\ (NonObjectResult(c) /\ c.defaultOptionsUsed) => RejectedByTypeCheck(c)
      /\ (NonObjectResult(c) /\ ~c.defaultOptionsUsed) =>
           (c.raisedBy # "mergeOptions" /\ c.merged = c.rest)
      /\ c.dynamicOptions.kind = "undef" => (c.raisedBy # "mergeOptions" /\ MergedWithoutProvider(c))

\* an array handed back by the provider has rejected a call
C21_Witness ==
  \E s \in Slots :
    /\ calls[s].dynamicOptions = DynOther("arr")
    /\ calls[s].defaultOptionsUsed
    /\ RejectedByTypeCheck(calls[s])

(***************************************************************************)
(* C22                                                                     *)
(***************************************************************************)
\* the options of the call are built and not yet handed to the transport
OptionsBuilt(c) == c.pc \in {"runBeforeSend", "send"}

\* the options the call holds, as the transport would receive them now
HeldOptions(t) == optionsOf(calls[t], calls[t].options, callerHeaders)

\* C22: no request writes the client configuration or another request's
\* state: the client's configuration stays as constructed, and a step of one
\* call never changes the options built for another call in flight.
C22_NoSharedWrites ==
  [][/\ client' = client
     /\ \A s \in Slots, t \in Slots :
          (s # t /\ calls'[s] # calls[s] /\ calls'[t] = calls[t] /\ OptionsBuilt(calls[t]))
            => HeldOptions(t)' = HeldOptions(t)]_vars

\* the part of C22 about the client: no step writes the client configuration
C22_ConfigurationKept == [][client' = client]_vars

\* with the defaults merged in, the options of a call are its own copy
C22_OwnCopyWithDefaults ==
  \A s \in Slots : calls[s].defaultOptionsUsed => ~calls[s].optionsRef

(***************************************************************************)
(* C23                                                                     *)
(***************************************************************************)
\* the call is inside the catch block
InCatch(c) == c.pc \in {"catch", "runErrorHandler", "rethrow"}

\* C23: the transport is invoked at most once per call; a failed attempt is
\* terminal: from the catch block the call only goes on to its rejection and
\* the transport is not invoked again.
C23_TransportOnce ==
  [][\A s \in Slots :
       /\ Count(calls'[s], "transport") <= 1
       /\ InCatch(calls[s]) =>
            /\ InCatch(calls'[s]) \/ calls'[s].pc = "rejected"
            /\ Count(calls'[s], "transport") = Count(calls[s], "transport")]_vars

\* a call whose single attempt failed is rejected after the handler ran
C23_Witness ==
  \E s \in Slots :
    /\ calls[s].pc = "rejected"
    /\ Count(calls[s], "transport") = 1
    /\ Count(calls[s], "errorHandler") = 1
    /\ calls[s].raisedBy = "rethrow"

(***************************************************************************)
(* C24                                                                     *)
(***************************************************************************)
\* C24: every hook is awaited whether or not it is declared async: the
\* transport is not invoked while the promise of beforeSend is unsettled, the
\* envelope is not returned while the promise of afterSend is unsettled, and
\* the error is not re-raised while the promise of errorHandler is unsettled.
C24_HooksAwaited ==
  \A s \in Slots :
    LET c == calls[s] IN
    /\ Count(c, "transport") > 0 => "beforeSend" \notin c.pending
    /\ c.pc = "resolved" => "afterSend" \notin c.pending
    /\ (c.pc = "rejected" /\ c.raisedBy = "rethrow") => "errorHandler" \notin c.pending

\* a hook declared async is awaited: its promise is never left behind
C24_AsyncHooksAwaited ==
  \A s \in Slots :
    /\ client.beforeSend = "async" => "beforeSend" \notin calls[s].pending
    /\ client.afterSend = "async" => "afterSend" \notin calls[s].pending
    /\ client.errorHandler = "async" => "errorHandler" \notin calls[s].pending

(***************************************************************************)
(* C25                                                                     *)
(***************************************************************************)
\* the provider's result is a promise that resolves to a plain object
AsyncProvider ==
  /\ client.dynamicOptions.fn \in {"async", "promise"}
  /\ client.dynamicOptions.ret.kind = "obj"

\* C25: when the provider's result is a promise resolving to a plain object,
\* whether the provider is declared async or is a plain function returning a
\* promise, the resolved object is what gets merged (dynamic over static,
\* per-call over both) and no configuration error is raised.
C25_AsyncProviderMerged ==
  \A s \in Slots :
    LET c == calls[s] IN
    (AsyncProvider /\ OptionsMerged(c)) =>
      /\ c.raisedBy # "mergeOptions"
      /\ c.dynamicOptions = client.dynamicOptions.ret
      /\ c.defaultOptionsUsed =>
           \A k \in {"cache", "headers"} : c.merged[k] = Precedence(c, k)

\* the object a plain function's promise resolved to has reached the transport
C25_Witness ==
  \E s \in Slots :
    /\ client.dynamicOptions.fn = "promise"
    /\ AsyncProvider
    /\ calls[s].defaultOptionsUsed
    /\ Sent(calls[s])
    /\ HeaderOf(calls[s].sent, "Authorization") = "dynamic"

(***************************************************************************)
(* C26                                                                     *)
(***************************************************************************)
\* the value of key k in the source of highest precedence that has the key
HighestValue(c, k) ==
  IF c.rest[k].kind # "undef" THEN c.rest[k]
  ELSE IF DynamicResult(c)[k].kind # "undef" THEN DynamicResult(c)[k]
  ELSE client.defaultOptions[k]

\* C26: a value that is not a plain object (an array or a scalar) replaces
\* the values of the sources of lower precedence wholesale: the merged value
\* is the value of the highest source and never a concatenation.
C26_ReplacedWholesale ==
  \A s \in Slots :
    LET c == calls[s] IN
    (c.defaultOptionsUsed /\ OptionsMerged(c) /\ c.raisedBy # "mergeOptions") =>
      \A k \in {"cache", "headers"} :
        HighestValue(c, k).kind \in {"arr", "str"} => c.merged[k] = HighestValue(c, k)

\* the same for scalars alone
C26_ScalarsReplaced ==
  \A s \in Slots :
    LET c == calls[s] IN
    (c.defaultOptionsUsed /\ OptionsMerged(c) /\ c.raisedBy # "mergeOptions") =>
      \A k \in {"cache", "headers"} :
        HighestValue(c, k).kind = "str" => c.merged[k] = HighestValue(c, k)

(***************************************************************************)
(* C27                                                                     *)
(***************************************************************************)
\* an upload was handed to the transport with a multipart body, without a
\* Content-Type header and with every other header of the merged options
UploadSent(c) ==
  (c.files.kind # "none" /\ Sent(c)) =>
    /\ c.sent["body"].kind = "form"
    /\ HeaderOf(c.sent, "Content-Type") = Missing
    /\ HeaderOf(c.sent, "Authorization") = HeaderOf(c.merged, "Authorization")

\* C27: whenever files are present the options handed to the transport have
\* the multipart body and no Content-Type header, whichever source had set
\* one, and keep every other header; no step changes the headers object the
\* caller owns or the client configuration.
C27_ContentTypeRemoved ==
  [][/\ client' = client
     /\ callerHeaders' = callerHeaders
     /\ \A s \in Slots : UploadSent(calls'[s])]_vars

\* the part of C27 about the request: what the transport receives
C27_UploadSent == \A s \in Slots : UploadSent(calls[s])

\* with the defaults merged in, the caller's headers object is left alone
C27_CallerHeadersKeptWithDefaults ==
  [][(\A s \in Slots : calls[s].pc # "idle" => calls[s].defaultOptionsUsed)
       => callerHeaders' = callerHeaders]_vars

(***************************************************************************)
(* C28                                                                     *)
(***************************************************************************)
\* event ev of the call comes before event later, if later occurs at all
Before(c, ev, later) == Count(c, later) > 0 => FirstAt(c, ev) < FirstAt(c, later)

\* C28: a configured provider is invoked exactly once per call, before
\* beforeSend and before the transport, whatever defaultOptionsUsed is; with
\* defaultOptionsUsed=false its result is discarded without a type check, so
\* a result that is not a plain object raises no error.
C28_ProviderOncePerCall ==
  \A s \in Slots :
    LET c == calls[s] IN
    (client.dynamicOptions.fn # "none" /\ c.pc \notin {"idle", "getDynamicOptions"}) =>
      /\ Count(c, "dynamicOptions") = 1
      /\ c.dynamicOptions = client.dynamicOptions.ret
      /\ Before(c, "dynamicOptions", "beforeSend")
      /\ Before(c, "dynamicOptions", "transport")
      /\ (~c.defaultOptionsUsed /\ OptionsMerged(c)) =>
           /\ c.raisedBy # "mergeOptions"
           /\ c.merged = c.rest

\* a provider that returns a number was invoked for a call that bypasses the
\* defaults, and the request went out
C28_Witness ==
  \E s \in Slots :
    /\ client.dynamicOptions.ret = DynNum
    /\ ~calls[s].defaultOptionsUsed
    /\ Count(calls[s], "dynamicOptions") = 1
    /\ Count(calls[s], "beforeSend") = 1
    /\ Sent(calls[s])

(***************************************************************************)
(* C29                                                                     *)
(***************************************************************************)
\* C29: option resolution completes before any hook runs: whenever a caller
\* configuration error is raised beforeSend has not been invoked for the
\* call, and whenever beforeSend is invoked the options it receives are the
\* final ones, which the transport is handed later.
C29_OptionsResolvedFirst ==
  \A s \in Slots :
    LET c == calls[s] IN
    /\ ConfigErrorRaised(c) => Count(c, "beforeSend") = 0
    /\ Count(c, "beforeSend") > 0 =>
         /\ OptionsMerged(c) /\ c.pc # "setFetchOptions"
         /\ c.fetchAPIOptions = c.options
         /\ Before(c, "beforeSend", "transport")
         /\ Sent(c) => c.sent = c.fetchAPIOptions

\* beforeSend was handed options with a derived JSON body, and the transport
\* was called afterwards
C29_Witness ==
  \E s \in Slots :
    /\ Count(calls[s], "beforeSend") = 1
    /\ Sent(calls[s])
    /\ calls[s].fetchAPIOptions["body"].kind = "json"

\* a configuration error was raised on a client that has a beforeSend hook
C29_ErrorWitness ==
  \E s \in Slots :
    /\ client.beforeSend # "none" /\ calls[s].globalBeforeSend
    /\ ConfigErrorRaised(calls[s])

(***************************************************************************)
(* C30                                                                     *)
(***************************************************************************)
\* the call went into the catch block with some error
ErrorPathEntered(c) == c.error # NoErr

\* the call is rejected with the exception its errorHandler threw
RejectedByHandler(c) ==
  /\ c.pc = "rejected"
  /\ Count(c, "errorHandler") = 1
  /\ ~c.thrown.wrapped
  /\ c.thrown.err.origin = "errorHandler"

\* the call is rejected with the failure itself: the FarFetchError wrapping
\* { error, response }, or the original exception of another class
RejectedWithFailure(c) ==
  /\ c.pc = "rejected"
  /\ \/ c.error.cls = "FarFetchError" /\ c.thrown = FarFetchErrorObj(c.error, c.response)
     \/ c.error.cls # "FarFetchError" /\ c.thrown = Thrown(c.error)

\* C30: a call that entered the error path never resolves.  If errorHandler
\* threw, the call rejects with the handler's exception and the original
\* failure is not re-raised; every other failed call rejects with the
\* FarFetchError wrapping { error, response } or with the original exception.
C30_ErrorPathRejects ==
  \A s \in Slots :
    LET c == calls[s] IN
    (Done(c) /\ ErrorPathEntered(c)) =>
      /\ c.pc = "rejected"
      /\ c.raisedBy = "errorHandler" => RejectedByHandler(c)
      /\ c.raisedBy # "errorHandler" => RejectedWithFailure(c)

\* the same, leaving aside the calls whose catch block failed to derive the
\* response body for the handler
C30_ErrorPathRejectsDerived ==
  \A s \in Slots :
    LET c == calls[s] IN
    (Done(c) /\ ErrorPathEntered(c) /\ c.raisedBy # "catch") =>
      /\ c.pc = "rejected"
      /\ c.raisedBy = "errorHandler" => RejectedByHandler(c)
      /\ c.raisedBy # "errorHandler" => RejectedWithFailure(c)

====
